---- MODULE Spec2Model ----
(***************************************************************************)
(* A model of src/player.rs: the Player command surface running on the     *)
(* owning thread, the Report and Progress watcher tasks blocking on their  *)
(* clock entries, the event channel to the gui, and the bus callback.      *)
(***************************************************************************)
EXTENDS Naturals, Sequences, FiniteSets, TLC

\* Bounds of the model.
MaxStale == 1       \* watcher tasks still running after their clock entry was released
MaxChan == 1        \* events sent and not yet received by the gui

Uris == {"a.mp3", "b.mp3"}
Positions == {2}
Durations == {180}

Kinds == {"report", "progress"}

VARIABLES
    initialized, uri_set, playing,  \* Player fields
    clock_id,       \* Player fields report_clock_id and progress_clock_id: the entry each holds
    pipeline,       \* engine: the last state requested of the playbin
    uriProp,        \* engine: the playbin's "uri" property
    wtask,          \* the position of the task spawned on the entry each slot holds
    stale,          \* the tasks still running on an entry already released, by position
    chan,           \* the gui channel: events sent and not yet received
    origin,         \* history: for each event in chan, the query results it was made from
    pc,             \* owning thread: position inside stop / set_uri, "idle" or "failed"
    inSetUri,       \* owning thread: stop was called by set_uri
    arg,            \* owning thread: the uri argument of the running set_uri
    cmd,            \* history: the last command called on the player
    calls,          \* history: the engine calls issued by the last command, in order
    watch,          \* engine: bus_callback is installed on the playbin's bus
    crashed,        \* the process died of a fault in bus_callback
    log,            \* the log records written by the last bus_callback
    bmsg            \* history: the last bus message dispatched and the log level then

vars == <<initialized, uri_set, playing, clock_id, pipeline, uriProp, wtask, stale,
          chan, origin, pc, inSetUri, arg, cmd, calls, watch, crashed, log, bmsg>>

flags == <<initialized, uri_set, playing>>
owner == <<pc, inSetUri, arg>>
bus == <<crashed, log, bmsg>>

\* A fault in bus_callback ends the process: the owning thread, the tasks and
\* the gui with it.
Alive == ~crashed

\* Option<ClockIDWrapper>: None, or the clock entry the wrapper owns. An entry
\* is "scheduled" from its creation and "unscheduled" once cancelled; `fired`
\* tells that its timer went off and woke the task while it was scheduled.
None == [status |-> "none", fired |-> FALSE]
ClockIDWrapper_new == [status |-> "scheduled", fired |-> FALSE]

report_clock_id == clock_id["report"]
progress_clock_id == clock_id["progress"]

\* The tasks that outlive their entry: the entry is released, the task holds
\* its raw id and has not ended.
StalePositions == [kind : Kinds, pos : {"spawned", "waiting", "fired"}, fired : BOOLEAN]
RECURSIVE Sum(_, _)
Sum(f, S) == IF S = {} THEN 0
             ELSE LET x == CHOOSE y \in S : TRUE IN f[x] + Sum(f, S \ {x})
NumStale == Sum(stale, StalePositions)

Running(pos) == pos \in {"spawned", "waiting", "fired"}

----------------------------------------------------------------------------
\* Engine functions used by the player.

gst_element_set_state(issued, state) ==
    /\ pipeline' = state
    /\ calls' = Append(issued, <<"set_state", state>>)

gst_clock_id_unschedule(k) ==
    /\ clock_id' = [clock_id EXCEPT ![k].status = "unscheduled"]
    /\ calls' = Append(calls, <<"unschedule", k>>)
    /\ UNCHANGED <<wtask, stale>>

\* The entry is released; a task still running on it keeps its raw id.
gst_clock_id_unref(k) ==
    /\ clock_id' = [clock_id EXCEPT ![k] = None]
    /\ wtask' = [wtask EXCEPT ![k] = "none"]
    /\ IF Running(wtask[k])
         THEN LET s == [kind |-> k, pos |-> wtask[k], fired |-> clock_id[k].fired]
              IN  /\ NumStale < MaxStale
                  /\ stale' = [stale EXCEPT ![s] = @ + 1]
         ELSE UNCHANGED stale
    /\ calls' = Append(calls, <<"unref", k>>)

\* What gst_clock_id_wait does when called on an entry: it blocks while the
\* entry is scheduled and returns UNSCHEDULED at once on a cancelled entry. On
\* an entry already released the call reads freed memory: any result.
gst_clock_id_wait(status) ==
    CASE status = "scheduled" -> {"BLOCK"}
      [] status = "unscheduled" -> {"UNSCHEDULED"}
      [] status = "released" -> {"OK", "UNSCHEDULED", "OTHER"}

\* What a blocked gst_clock_id_wait returns when it wakes: OK when the timer
\* fired, UNSCHEDULED when the entry was cancelled meanwhile.
gst_clock_id_wake(status) ==
    IF status = "scheduled" THEN "OK" ELSE "UNSCHEDULED"

----------------------------------------------------------------------------
\* Player::new
Init ==
    /\ initialized = FALSE
    /\ uri_set = FALSE
    /\ playing = FALSE
    /\ clock_id = [k \in Kinds |-> None]
    /\ pipeline = "Null"
    /\ uriProp = "none"
    /\ wtask = [k \in Kinds |-> "none"]
    /\ stale = [s \in StalePositions |-> 0]
    /\ chan = <<>>
    /\ origin = <<>>
    /\ pc = "idle"
    /\ inSetUri = FALSE
    /\ arg = "none"
    /\ cmd = "new"
    /\ calls = <<>>
    /\ watch = FALSE
    /\ crashed = FALSE
    /\ log = <<>>
    /\ bmsg = <<>>

\* Player::init: gst_element_factory_make returns a playbin or null.
init ==
    \E made \in BOOLEAN :
        /\ pipeline' = "Null"
        /\ uriProp' = "none"
        /\ IF made
             THEN /\ initialized' = TRUE
                  /\ watch' = TRUE
                  /\ calls' = <<<<"factory_make">>, <<"bus_add_watch">>>>
                  /\ pc' = "idle"
             ELSE /\ initialized' = initialized
                  /\ watch' = watch
                  /\ calls' = <<<<"factory_make">>>>
                  /\ pc' = "failed"
        /\ UNCHANGED <<uri_set, playing, clock_id, wtask, stale, chan, origin, inSetUri, arg>>

play_unchecked ==
    IF ~initialized
      THEN /\ pc' = "failed"
           /\ calls' = <<>>
           /\ UNCHANGED <<flags, clock_id, pipeline, uriProp, wtask, stale, chan, origin, inSetUri, arg>>
      ELSE /\ gst_element_set_state(<<>>, "Playing")
           /\ playing' = TRUE
           /\ UNCHANGED <<initialized, uri_set, clock_id, uriProp, wtask, stale, chan, origin, owner>>

play_state_first ==
    IF ~initialized
      THEN /\ pc' = "failed"
           /\ calls' = <<>>
           /\ UNCHANGED <<flags, clock_id, pipeline, uriProp, wtask, stale, chan, origin, inSetUri, arg>>
      ELSE /\ gst_element_set_state(<<>>, "Playing")
           /\ playing' = uri_set
           /\ UNCHANGED <<initialized, uri_set, clock_id, uriProp, wtask, stale, chan, origin, owner>>

\* Player::play
play ==
    IF ~initialized
      THEN /\ pc' = "failed"
           /\ calls' = <<>>
           /\ UNCHANGED <<flags, clock_id, pipeline, uriProp, wtask, stale, chan, origin, inSetUri, arg>>
      ELSE IF ~uri_set
        THEN /\ calls' = <<>>
             /\ UNCHANGED <<flags, clock_id, pipeline, uriProp, wtask, stale, chan, origin, owner>>
        ELSE /\ gst_element_set_state(<<>>, "Playing")
             /\ playing' = TRUE
             /\ UNCHANGED <<initialized, uri_set, clock_id, uriProp, wtask, stale, chan, origin, owner>>

pause_cancels_report ==
    IF ~initialized
      THEN /\ pc' = "failed"
           /\ calls' = <<>>
           /\ UNCHANGED <<flags, clock_id, pipeline, uriProp, wtask, stale, chan, origin, inSetUri, arg>>
      ELSE /\ gst_element_set_state(<<>>, "Paused")
           /\ playing' = FALSE
           /\ clock_id' = [clock_id EXCEPT !["report"].status =
                              IF @ = "scheduled" THEN "unscheduled" ELSE @]
           /\ UNCHANGED <<initialized, uri_set, uriProp, wtask, stale, chan, origin, owner>>

pause_unchecked ==
    /\ gst_element_set_state(<<>>, "Paused")
    /\ playing' = FALSE
    /\ UNCHANGED <<initialized, uri_set, clock_id, uriProp, wtask, stale, chan, origin, owner>>

\* Player::pause
pause ==
    IF ~initialized
      THEN /\ pc' = "failed"
           /\ calls' = <<>>
           /\ UNCHANGED <<flags, clock_id, pipeline, uriProp, wtask, stale, chan, origin, inSetUri, arg>>
      ELSE /\ gst_element_set_state(<<>>, "Paused")
           /\ playing' = FALSE
           /\ UNCHANGED <<initialized, uri_set, clock_id, uriProp, wtask, stale, chan, origin, owner>>

toggle_always_play == play

\* Player::toggle
toggle == IF playing THEN pause ELSE play

\* Player::is_playing, Player::can_play
is_playing == playing
can_play == uri_set

----------------------------------------------------------------------------
\* Player::stop, entered from the command surface or from set_uri. The engine
\* calls of stop are separate steps: watcher tasks run between them.
stop_enter ==
    /\ calls' = <<>>
    /\ IF ~initialized
         THEN pc' = "failed"
         ELSE pc' = "stop_report"

stop ==
    /\ stop_enter
    /\ inSetUri' = FALSE
    /\ UNCHANGED <<flags, clock_id, pipeline, uriProp, wtask, stale, chan, origin, arg>>

drop_without_unschedule(k, next, skip) ==
    /\ IF clock_id[k] = None
         THEN pc' = skip
         ELSE pc' = next
    /\ UNCHANGED <<clock_id, wtask, stale, calls>>
    /\ UNCHANGED <<flags, pipeline, uriProp, chan, origin, inSetUri, arg>>

\* Drop for ClockIDWrapper, first call.
drop_unschedule(k, next, skip) ==
    /\ IF clock_id[k] = None
         THEN /\ pc' = skip
              /\ UNCHANGED <<clock_id, wtask, stale, calls>>
         ELSE /\ gst_clock_id_unschedule(k)
              /\ pc' = next
    /\ UNCHANGED <<flags, pipeline, uriProp, chan, origin, inSetUri, arg>>

\* Drop for ClockIDWrapper, second call; the slot now holds None.
drop_unref(k, next) ==
    /\ gst_clock_id_unref(k)
    /\ pc' = next
    /\ UNCHANGED <<flags, pipeline, uriProp, chan, origin, inSetUri, arg>>

\* self.report_clock_id = None
stop_report_unschedule ==
    /\ Alive /\ pc = "stop_report"
    /\ drop_unschedule("report", "stop_report_unref", "stop_progress")
    /\ UNCHANGED <<cmd, watch, bus>>

stop_report_unref ==
    /\ Alive /\ pc = "stop_report_unref"
    /\ drop_unref("report", "stop_progress")
    /\ UNCHANGED <<cmd, watch, bus>>

\* self.progress_clock_id = None
stop_progress_unschedule ==
    /\ Alive /\ pc = "stop_progress"
    /\ drop_unschedule("progress", "stop_progress_unref", "stop_state")
    /\ UNCHANGED <<cmd, watch, bus>>

stop_progress_unref ==
    /\ Alive /\ pc = "stop_progress_unref"
    /\ drop_unref("progress", "stop_state")
    /\ UNCHANGED <<cmd, watch, bus>>

stop_return_keeps_source ==
    /\ Alive /\ pc = "stop_state"
    /\ UNCHANGED <<cmd, watch, bus>>
    /\ gst_element_set_state(calls, "Ready")
    /\ playing' = FALSE
    /\ pc' = IF inSetUri THEN "set_uri_prop" ELSE "idle"
    /\ UNCHANGED <<initialized, uri_set, clock_id, uriProp, wtask, stale, chan, origin, inSetUri, arg>>

\* gst_element_set_state(READY), the two flags, and the return.
stop_return ==
    /\ Alive /\ pc = "stop_state"
    /\ UNCHANGED <<cmd, watch, bus>>
    /\ gst_element_set_state(calls, "Ready")
    /\ uri_set' = FALSE
    /\ playing' = FALSE
    /\ pc' = IF inSetUri THEN "set_uri_prop" ELSE "idle"
    /\ UNCHANGED <<initialized, clock_id, uriProp, wtask, stale, chan, origin, inSetUri, arg>>

----------------------------------------------------------------------------
set_uri_without_stop(uri) ==
    /\ arg' = uri
    /\ inSetUri' = TRUE
    /\ calls' = <<>>
    /\ pc' = IF initialized THEN "set_uri_prop" ELSE "failed"
    /\ UNCHANGED <<flags, clock_id, pipeline, uriProp, wtask, stale, chan, origin>>

\* Player::set_uri
set_uri(uri) ==
    /\ arg' = uri
    /\ inSetUri' = TRUE
    /\ stop_enter
    /\ UNCHANGED <<flags, clock_id, pipeline, uriProp, wtask, stale, chan, origin>>

\* g_object_set(playbin, "uri", uri)
set_uri_property ==
    /\ Alive /\ pc = "set_uri_prop"
    /\ UNCHANGED <<cmd, watch, bus>>
    /\ uriProp' = arg
    /\ calls' = Append(calls, <<"set_uri", arg>>)
    /\ pc' = "start_report"
    /\ UNCHANGED <<flags, clock_id, pipeline, wtask, stale, chan, origin, inSetUri, arg>>

\* A fresh entry is stored in the slot of kind k and a task is spawned on it.
\* Storing drops the wrapper the slot held, if any.
start_watch(k, new, next) ==
    /\ clock_id' = [clock_id EXCEPT ![k] = ClockIDWrapper_new]
    /\ wtask' = [wtask EXCEPT ![k] = "spawned"]
    /\ IF Running(wtask[k])
         THEN LET s == [kind |-> k, pos |-> wtask[k], fired |-> clock_id[k].fired]
              IN  NumStale < MaxStale /\ stale' = [stale EXCEPT ![s] = @ + 1]
         ELSE UNCHANGED stale
    /\ calls' = calls \o <<<<new, k>>>>
                      \o (IF clock_id[k] = None THEN <<>>
                          ELSE <<<<"unschedule", k>>, <<"unref", k>>>>)
                      \o <<<<"spawn", k>>>>
    /\ pc' = next
    /\ UNCHANGED <<flags, pipeline, uriProp, chan, origin, inSetUri, arg>>

\* Player::start_report_watch: gst_clock_new_single_shot_id
start_report_watch ==
    /\ Alive /\ pc = "start_report"
    /\ start_watch("report", "new_single_shot", "start_progress")
    /\ UNCHANGED <<cmd, watch, bus>>

\* Player::start_progress_watch: gst_clock_new_periodic_id
start_progress_watch ==
    /\ Alive /\ pc = "start_progress"
    /\ start_watch("progress", "new_periodic", "set_uri_done")
    /\ UNCHANGED <<cmd, watch, bus>>

\* self.uri_set = true, and the return.
set_uri_return_unset ==
    /\ Alive /\ pc = "set_uri_done"
    /\ UNCHANGED <<cmd, watch, bus>>
    /\ inSetUri' = FALSE
    /\ arg' = "none"
    /\ pc' = "idle"
    /\ UNCHANGED <<flags, clock_id, pipeline, uriProp, wtask, stale, chan, origin, calls>>

\* self.uri_set = true, and the return.
set_uri_return ==
    /\ Alive /\ pc = "set_uri_done"
    /\ UNCHANGED <<cmd, watch, bus>>
    /\ uri_set' = TRUE
    /\ inSetUri' = FALSE
    /\ arg' = "none"
    /\ pc' = "idle"
    /\ UNCHANGED <<initialized, playing, clock_id, pipeline, uriProp, wtask, stale, chan, origin, calls>>

----------------------------------------------------------------------------
\* Events of the gui channel.
ReportCurrentTrack == <<"ReportCurrentTrack">>
SetProgress(opt) == <<"SetProgress", opt>>
Some(x) == <<x>>
NoValue == <<>>

\* What an event in the channel was made from: the success flags of the
\* position and the duration query for a SetProgress, nothing for the others.
NoInputs == <<>>
Queried(success_position, success_duration) == <<success_position, success_duration>>

\* chan.send(ev)
send(ev) ==
    /\ Len(chan) < MaxChan
    /\ chan' = Append(chan, ev)

\* The watcher tasks that have not ended: the one spawned on the entry a slot
\* holds, and the stale ones.
Tasks ==
    {[at |-> "slot", kind |-> k, pos |-> wtask[k], fired |-> clock_id[k].fired] :
        k \in {j \in Kinds : Running(wtask[j])}}
    \cup {[at |-> "stale", kind |-> s.kind, pos |-> s.pos, fired |-> s.fired] :
        s \in {x \in StalePositions : stale[x] > 0}}

\* The state of the entry behind the raw id task t holds.
StatusOf(t) == IF t.at = "slot" THEN clock_id[t.kind].status ELSE "released"

\* Task t goes to position pos; an ended task on a released entry is gone.
Move(t, pos, fired) ==
    IF t.at = "slot"
      THEN /\ wtask' = [wtask EXCEPT ![t.kind] = pos]
           /\ clock_id' = [clock_id EXCEPT ![t.kind].fired = fired]
           /\ UNCHANGED stale
      ELSE LET old == [kind |-> t.kind, pos |-> t.pos, fired |-> t.fired]
               new == [kind |-> t.kind, pos |-> pos, fired |-> fired]
               left == [stale EXCEPT ![old] = @ - 1]
           IN  /\ stale' = IF Running(pos) THEN [left EXCEPT ![new] = @ + 1] ELSE left
               /\ UNCHANGED <<wtask, clock_id>>

\* match res { GST_CLOCK_UNSCHEDULED => .., GST_CLOCK_OK => .., _ => unreachable!() }
match_res(res) ==
    CASE res = "BLOCK" -> "waiting"
      [] res = "UNSCHEDULED" -> "exit"
      [] res = "OK" -> "fired"
      [] OTHER -> "failed"

\* A watcher task calls gst_clock_id_wait on the raw id it captured.
task_wait(t) ==
    /\ Alive
    /\ t.pos = "spawned"
    /\ \E res \in gst_clock_id_wait(StatusOf(t)) : Move(t, match_res(res), t.fired)
    /\ UNCHANGED <<flags, pipeline, uriProp, chan, origin, owner, cmd, calls, watch, bus>>

\* The blocked wait returns.
task_wake(t) ==
    /\ Alive
    /\ t.pos = "waiting"
    /\ LET res == gst_clock_id_wake(StatusOf(t))
       IN  Move(t, match_res(res), res = "OK")
    /\ UNCHANGED <<flags, pipeline, uriProp, chan, origin, owner, cmd, calls, watch, bus>>

\* The report task after GST_CLOCK_OK: one event, and the task ends.
report_send(t) ==
    /\ Alive
    /\ t.kind = "report"
    /\ t.pos = "fired"
    /\ send(ReportCurrentTrack)
    /\ origin' = Append(origin, NoInputs)
    /\ Move(t, "exit", t.fired)
    /\ UNCHANGED <<flags, pipeline, uriProp, owner, cmd, calls, watch, bus>>

progress_event_either(success_position, current_position, success_duration, current_duration) ==
    IF success_duration \/ success_position
      THEN SetProgress(Some(<<current_position, current_duration>>))
      ELSE SetProgress(NoValue)

\* The progress task after GST_CLOCK_OK: the two queries, one event, and the
\* loop goes back to the wait.
progress_event(success_position, current_position, success_duration, current_duration) ==
    IF success_duration /\ success_position
      THEN SetProgress(Some(<<current_position, current_duration>>))
      ELSE SetProgress(NoValue)

progress_send(t) ==
    /\ Alive
    /\ t.kind = "progress"
    /\ t.pos = "fired"
    /\ \E sp \in BOOLEAN, sd \in BOOLEAN, pos \in Positions, dur \in Durations :
           /\ send(progress_event(sp, pos, sd, dur))
           /\ origin' = Append(origin, Queried(sp, sd))
    /\ Move(t, "spawned", FALSE)
    /\ UNCHANGED <<flags, pipeline, uriProp, owner, cmd, calls, watch, bus>>

\* The gui takes the next event off the channel.
gui_recv ==
    /\ Alive
    /\ chan # <<>>
    /\ chan' = Tail(chan)
    /\ origin' = Tail(origin)
    /\ UNCHANGED <<flags, clock_id, pipeline, uriProp, wtask, stale, owner, cmd, calls, watch, bus>>

----------------------------------------------------------------------------
\* The bus callback. A bus message has a kind, a source element (none, one
\* without a name, or a named one) and, as C strings that may be null, an
\* error text and a debug text.
NextTrack == <<"NextTrack">>
Notify(text) == <<"Notify", text>>

NULL == <<>>
CStr(text) == <<text>>
MessageKinds == {"ERROR", "WARNING", "INFO", "EOS", "OTHER"}
Messages == [kind : MessageKinds,
             src : {"null", "unnamed", "playbin"},
             err : {NULL, CStr("boom")},
             dbg : {NULL, CStr("player.c(42)")}]

\* std::logging levels, and log_enabled!
ERROR == 1
WARN == 2
INFO == 3
DEBUG == 4
LogLevels == ERROR..DEBUG
log_enabled(level, enabled) == level <= enabled

\* error!, warn!, info!, debug!: the records one call writes.
log_record(level, text, enabled) ==
    IF log_enabled(level, enabled) THEN <<<<level, text>>>> ELSE <<>>

\* The backquote of the Notify text, which a TLA+ string cannot hold.
Backquote == "'"

\* format!("Playback error: `{}`", err_msg)
format_playback_error(err_msg) == "Playback error: " \o Backquote \o err_msg \o Backquote

\* std::str::raw::from_c_str reads the bytes at the pointer. On a null pointer
\* that is a read of address 0: a fault, or whatever bytes the read yields.
Garbage == "<garbage>"
from_c_str(ptr) ==
    IF ptr = NULL
      THEN {[fault |-> TRUE, str |-> ""], [fault |-> FALSE, str |-> Garbage]}
      ELSE {[fault |-> FALSE, str |-> ptr[1]]}

\* The name of the message's source.
source_name(msg) ==
    IF msg.src = "null" THEN "null-source"
    ELSE IF msg.src = "unnamed" THEN "null-name"
    ELSE msg.src

\* gst_message_parse_error, then the two records at `level`: the error text,
\* then the debug text. A fault ends the callback where it happens.
log_error_texts(msg, level, what, enabled) ==
    {IF e.fault
       THEN [fault |-> TRUE, logs |-> <<>>, err_msg |-> ""]
       ELSE LET first == log_record(level,
                            what \o " from element " \o source_name(msg) \o ": " \o e.str,
                            enabled)
            IN  IF d.fault
                  THEN [fault |-> TRUE, logs |-> first, err_msg |-> e.str]
                  ELSE [fault |-> FALSE,
                        logs |-> first \o log_record(level, "Debugging info: " \o d.str, enabled),
                        err_msg |-> e.str]
     : e \in from_c_str(msg.err), d \in from_c_str(msg.dbg)}

\* What one invocation does: the records it writes, the events it sends and
\* the value it returns, or the fault it dies of.
Ran(logs, events) == [fault |-> FALSE, logs |-> logs, events |-> events, ret |-> 1]
Faulted(logs) == [fault |-> TRUE, logs |-> logs, events |-> <<>>, ret |-> 0]

\* GST_MESSAGE_ERROR
on_error(msg, enabled) ==
    {IF r.fault THEN Faulted(r.logs)
     ELSE Ran(r.logs, <<Notify(format_playback_error(r.err_msg))>>)
     : r \in log_error_texts(msg, ERROR, "ERROR", enabled)}

\* GST_MESSAGE_WARNING. The message is handed to gst_message_parse_error, which
\* is for error messages: it either refuses it and leaves err null, so that
\* reading (*err).message faults, or parses it all the same.
on_warning(msg, enabled) ==
    IF log_enabled(WARN, enabled)
      THEN {Faulted(<<>>)} \cup
           {IF r.fault THEN Faulted(r.logs) ELSE Ran(r.logs, <<>>)
            : r \in log_error_texts(msg, WARN, "WARNING", enabled)}
      ELSE {Ran(<<>>, <<>>)}

\* GST_MESSAGE_INFO. The message is handed to gst_message_parse_error, which
\* is for error messages: it either refuses it and leaves err null, so that
\* reading (*err).message faults, or parses it all the same.
on_info(msg, enabled) ==
    IF log_enabled(INFO, enabled)
      THEN {Faulted(<<>>)} \cup
           {IF r.fault THEN Faulted(r.logs) ELSE Ran(r.logs, <<>>)
            : r \in log_error_texts(msg, INFO, "INFO", enabled)}
      ELSE {Ran(<<>>, <<>>)}

on_eos_silent(msg, enabled) ==
    {Ran(log_record(DEBUG, "EOS from element " \o source_name(msg), enabled), <<>>)}

\* GST_MESSAGE_EOS
on_eos(msg, enabled) ==
    {Ran(log_record(DEBUG, "EOS from element " \o source_name(msg), enabled), <<NextTrack>>)}

\* Any other message type.
on_other(msg, enabled) ==
    {Ran(log_record(DEBUG, "message of type " \o Backquote \o "unknown" \o Backquote
                            \o " from element " \o Backquote
                            \o source_name(msg) \o Backquote, enabled), <<>>)}

\* match (*msg)._type
bus_callback_runs(msg, enabled) ==
    CASE msg.kind = "ERROR" -> on_error(msg, enabled)
      [] msg.kind = "WARNING" -> on_warning(msg, enabled)
      [] msg.kind = "INFO" -> on_info(msg, enabled)
      [] msg.kind = "EOS" -> on_eos(msg, enabled)
      [] OTHER -> on_other(msg, enabled)

\* bus_callback, called by the engine for a message posted on the bus while
\* the watch is installed. Returning 0 removes the watch.
bus_callback(msg, enabled) ==
    /\ Alive
    /\ watch
    /\ \E run \in bus_callback_runs(msg, enabled) :
           /\ Len(chan) + Len(run.events) <= MaxChan
           /\ chan' = chan \o run.events
           /\ origin' = origin \o [i \in 1..Len(run.events) |-> NoInputs]
           /\ log' = run.logs
           /\ crashed' = run.fault
           /\ watch' = (run.fault \/ run.ret # 0)
    /\ bmsg' = <<msg, enabled>>
    /\ UNCHANGED <<flags, clock_id, pipeline, uriProp, wtask, stale, owner, cmd, calls>>

----------------------------------------------------------------------------
\* The command surface, called on the owning thread between commands.
call_init == Alive /\ pc = "idle" /\ cmd' = "init" /\ init /\ UNCHANGED bus
call_play == Alive /\ pc = "idle" /\ cmd' = "play" /\ play /\ UNCHANGED <<watch, bus>>
call_pause == Alive /\ pc = "idle" /\ cmd' = "pause" /\ pause /\ UNCHANGED <<watch, bus>>
call_toggle == Alive /\ pc = "idle" /\ cmd' = "toggle" /\ toggle /\ UNCHANGED <<watch, bus>>
call_stop == Alive /\ pc = "idle" /\ cmd' = "stop" /\ stop /\ UNCHANGED <<watch, bus>>
call_set_uri ==
    Alive /\ pc = "idle" /\ cmd' = "set_uri" /\ (\E uri \in Uris : set_uri(uri)) /\ UNCHANGED <<watch, bus>>

\* The two queries read one field each and return it: is_playing and
\* can_play above are the values returned.
query ==
    /\ calls' = <<>>
    /\ UNCHANGED <<flags, clock_id, pipeline, uriProp, wtask, stale, chan, origin, owner>>
call_is_playing == Alive /\ pc = "idle" /\ cmd' = "is_playing" /\ query /\ UNCHANGED <<watch, bus>>
call_can_play == Alive /\ pc = "idle" /\ cmd' = "can_play" /\ query /\ UNCHANGED <<watch, bus>>

Next ==
    \/ call_init
    \/ call_play
    \/ call_pause
    \/ call_toggle
    \/ call_stop
    \/ call_set_uri
    \/ call_is_playing
    \/ call_can_play
    \/ stop_report_unschedule
    \/ stop_report_unref
    \/ stop_progress_unschedule
    \/ stop_progress_unref
    \/ stop_return
    \/ set_uri_property
    \/ start_report_watch
    \/ start_progress_watch
    \/ set_uri_return
    \/ \E t \in Tasks : task_wait(t)
    \/ \E t \in Tasks : task_wake(t)
    \/ \E t \in Tasks : report_send(t)
    \/ \E t \in Tasks : progress_send(t)
    \/ gui_recv

Spec == Init /\ [][Next]_vars

\* Scheduling. A command that was called runs to its return; each task is a
\* thread of its own (task::spawn_sched(task::SingleThreaded)) and gets to
\* run; the gui keeps receiving, so that a send never waits for good. The
\* commands themselves need not be called.
OwnerStep ==
    \/ stop_report_unschedule
    \/ stop_report_unref
    \/ stop_progress_unschedule
    \/ stop_progress_unref
    \/ stop_return
    \/ set_uri_property
    \/ start_report_watch
    \/ start_progress_watch
    \/ set_uri_return
TaskStep(at, kinds) ==
    \E t \in Tasks :
        /\ t.at = at
        /\ t.kind \in kinds
        /\ (task_wait(t) \/ task_wake(t) \/ report_send(t) \/ progress_send(t))
Fairness ==
    /\ WF_vars(OwnerStep)
    /\ WF_vars(gui_recv)
    /\ SF_vars(TaskStep("slot", {"report"}))
    /\ SF_vars(TaskStep("slot", {"progress"}))
    /\ SF_vars(TaskStep("stale", Kinds))

FairSpec == Spec /\ Fairness

\* The bus callback reads and writes nothing of the player, the clock entries
\* or the tasks: it runs here beside init and the gui alone.
BusNext ==
    \/ call_init
    \/ \E msg \in Messages, enabled \in LogLevels : bus_callback(msg, enabled)
    \/ gui_recv

BusSpec == Init /\ [][BusNext]_vars

----------------------------------------------------------------------------
\* The player is between commands: no stop or set_uri is running.
Quiescent == pc \in {"idle", "failed"}
Returned(command) == cmd = command /\ pc = "idle"
Everything == <<flags, clock_id, pipeline, uriProp, wtask, stale, chan, origin, owner, watch, bus>>

\* C1: between commands, whatever init, set_uri, play, pause, stop and toggle
\* calls were made, playing implies uri_set and uri_set implies initialized.
C1_PlayingImpliesLoadedImpliesInitialized ==
    Quiescent => (playing => uri_set) /\ (uri_set => initialized)

C1_Witness == Returned("play") /\ playing /\ uri_set /\ initialized

\* C2: when stop() has returned on an initialized player, is_playing() and
\* can_play() are false, both clock id slots are None, every entry stop
\* cancelled it released next, and the last state it requested is Ready.
C2_AfterStop ==
    Returned("stop") =>
        /\ ~is_playing
        /\ ~can_play
        /\ report_clock_id = None
        /\ progress_clock_id = None
        /\ pipeline = "Ready"
        /\ calls # <<>>
        /\ calls[Len(calls)] = <<"set_state", "Ready">>
        /\ \A i \in 1..Len(calls) : \A k \in Kinds :
               calls[i] = <<"unschedule", k>> => calls[i + 1] = <<"unref", k>>

C2_Witness ==
    /\ Returned("stop")
    /\ calls = <<<<"unschedule", "report">>, <<"unref", "report">>,
                 <<"unschedule", "progress">>, <<"unref", "progress">>,
                 <<"set_state", "Ready">>>>

\* C3: play() on an initialized player with can_play() false leaves
\* is_playing() false, issues no engine call, and changes no player field, no
\* clock entry and no task.
C3_PlayWithoutSource ==
    [][(call_play /\ initialized /\ ~can_play) =>
           /\ ~is_playing'
           /\ calls' = <<>>
           /\ UNCHANGED Everything]_vars

C3_Witness ==
    Returned("play") /\ initialized /\ ~can_play /\ ~is_playing /\ calls = <<>>
        /\ pipeline = "Ready"

\* C4: a toggle() step is a pause() step when is_playing() is true and a
\* play() step when it is false: the same resulting state and engine calls,
\* the failure before init and the no-op without a source included.
C4_ToggleIsPauseOrPlay ==
    [][call_toggle => IF is_playing THEN pause ELSE play]_vars

C4_Witness ==
    Returned("toggle") /\ ~is_playing /\ can_play /\ calls = <<<<"set_state", "Paused">>>>

\* C5: when set_uri(uri) has returned, its engine calls were, in order: the
\* drop of both old entries (cancel, then release), the state Ready, the uri
\* property, a new single-shot entry and its task, a new periodic entry and
\* its task; can_play() is true, is_playing() is false, and each slot holds a
\* live entry.
DropBoth == <<<<"unschedule", "report">>, <<"unref", "report">>,
              <<"unschedule", "progress">>, <<"unref", "progress">>>>
LoadCalls(uri) == <<<<"set_state", "Ready">>, <<"set_uri", uri>>,
                    <<"new_single_shot", "report">>, <<"spawn", "report">>,
                    <<"new_periodic", "progress">>, <<"spawn", "progress">>>>

C5_AfterSetUri ==
    Returned("set_uri") =>
        /\ can_play
        /\ ~is_playing
        /\ uriProp \in Uris
        /\ calls \in {LoadCalls(uriProp), DropBoth \o LoadCalls(uriProp)}
        /\ \A k \in Kinds : clock_id[k].status = "scheduled" /\ wtask[k] # "none"

C5_Witness ==
    /\ Returned("set_uri")
    /\ calls = DropBoth \o LoadCalls("b.mp3")
    /\ \A k \in Kinds : clock_id[k] = ClockIDWrapper_new /\ wtask[k] = "spawned"

\* C6: no task started for an earlier source sends an event once the
\* watchers of the next source have both been started.
Replaced(t) ==
    /\ t.at = "stale"
    /\ \A k \in Kinds : clock_id[k] # None
C6_NoEventFromReplacedWatcher ==
    [][\A t \in Tasks : (report_send(t) \/ progress_send(t)) => ~Replaced(t)]_vars

\* C7: a progress task whose entry has been cancelled sends no SetProgress.
C7_NoProgressAfterCancel ==
    [][\A t \in Tasks : progress_send(t) => StatusOf(t) = "scheduled"]_vars

\* The number of report tasks that have not ended.
ReportTasks ==
    (IF Running(wtask["report"]) THEN 1 ELSE 0)
        + Sum(stale, {x \in StalePositions : x.kind = "report"})

\* C8: a report task sends only when its timer fired before any cancel, and
\* then it sends one ReportCurrentTrack and ends.
C8_ReportOnlyWhenFired ==
    [][\A t \in Tasks : report_send(t) =>
           /\ t.fired
           /\ chan' = Append(chan, ReportCurrentTrack)
           /\ ReportTasks' = ReportTasks - 1]_vars

\* A step is a delivery when it is the bus_callback of the message and log
\* level it records.
Delivered == bmsg'[1]
Delivery == bmsg' # <<>> /\ bus_callback(bmsg'[1], bmsg'[2])

\* C9: for an Error message whose error text is present, one bus_callback
\* sends the one event Notify of the formatted text and changes nothing of
\* the player, the pipeline or the tasks.
C9_ErrorNotifies ==
    [][(Delivery /\ Delivered.kind = "ERROR" /\ Delivered.err # NULL) =>
           /\ chan' = Append(chan, Notify(format_playback_error(Delivered.err[1])))
           /\ UNCHANGED <<flags, clock_id, pipeline, uriProp, wtask, stale, owner>>]_vars

\* C10: for an End-of-stream message one bus_callback sends the one event
\* NextTrack; for a Warning, Info or other message it sends nothing, at
\* every log level.
C10_EosSendsNextTrackOthersNothing ==
    [][Delivery =>
           /\ Delivered.kind = "EOS" => chan' = Append(chan, NextTrack)
           /\ Delivered.kind \in {"WARNING", "INFO", "OTHER"} => chan' = chan]_vars

C10_Witness ==
    /\ bmsg # <<>>
    /\ bmsg[1].kind = "EOS"
    /\ chan = <<NextTrack>>
    /\ ~crashed

\* C11: every bus_callback invocation, whatever the message kind and the log
\* level, returns non-zero, so the watch init installed stays installed.
C11_AlwaysReturnsRetain ==
    [][Delivery => ~crashed' /\ watch']_vars

\* The level at which a message's texts are logged, and whether the callback
\* reads them at the log level `enabled`.
LevelOf(kind) == CASE kind = "ERROR" -> ERROR [] kind = "WARNING" -> WARN [] OTHER -> INFO
ReadsTexts(msg, enabled) ==
    \/ msg.kind = "ERROR"
    \/ msg.kind \in {"WARNING", "INFO"} /\ log_enabled(LevelOf(msg.kind), enabled)

\* C12: a bus_callback invocation that reads the texts of a message whose
\* error text or debug text is null does not fault: it writes both records
\* with a text in place of the null one that is not whatever lies behind the
\* null pointer, sends its Notify when the message is an Error, and returns
\* non-zero.
C12_NullTextsTolerated ==
    [][(/\ Delivery
        /\ ReadsTexts(Delivered, bmsg'[2])
        /\ (Delivered.err = NULL \/ Delivered.dbg = NULL)) =>
           /\ ~crashed'
           /\ watch'
           /\ log_enabled(LevelOf(Delivered.kind), bmsg'[2]) =>
                  /\ Len(log') = 2
                  /\ Delivered.err = NULL =>
                         log'[1][2] # Delivered.kind \o " from element "
                                          \o source_name(Delivered) \o ": " \o Garbage
                  /\ Delivered.dbg = NULL => log'[2][2] # "Debugging info: " \o Garbage
           /\ IF Delivered.kind = "ERROR"
                THEN /\ Len(chan') = Len(chan) + 1
                     /\ chan'[Len(chan')][1] = "Notify"
                     /\ Delivered.err = NULL =>
                            chan'[Len(chan')] # Notify(format_playback_error(Garbage))
                ELSE chan' = chan]_vars

\* C13: on a player that is not initialized, play, pause, stop, toggle and
\* set_uri each end in the failure before any engine call and change no
\* player field, no clock entry, no task and no event; is_playing and
\* can_play never fail, issue no engine call and change nothing.
NotInitializedCall ==
    ~initialized /\ (call_play \/ call_pause \/ call_stop \/ call_toggle \/ call_set_uri)
C13_FatalBeforeInit ==
    [][/\ NotInitializedCall =>
              /\ pc' = "failed"
              /\ calls' = <<>>
              /\ UNCHANGED <<flags, clock_id, pipeline, uriProp, wtask, stale, chan, origin, watch, bus>>
       /\ (call_is_playing \/ call_can_play) =>
              /\ pc' = "idle"
              /\ calls' = <<>>
              /\ is_playing' = is_playing
              /\ can_play' = can_play
              /\ UNCHANGED Everything]_vars

C13_Witness ==
    cmd = "set_uri" /\ pc = "failed" /\ ~initialized /\ calls = <<>> /\ pipeline = "Null"

\* The number of tasks of kind k that were started and have not ended.
LiveTasks(k) ==
    (IF Running(wtask[k]) THEN 1 ELSE 0)
        + Sum(stale, {x \in StalePositions : x.kind = k})

\* C14: in every reachable state at most one report task and at most one
\* progress task is live.
C14_AtMostOneLiveWatcherPerKind ==
    \A k \in Kinds : LiveTasks(k) <= 1

\* C15: an entry is cancelled once, while scheduled, and released once, after
\* its cancel; a new entry of a kind is created only when the slot of that
\* kind is empty, the old entry cancelled and released.
C15_CancelThenReleaseBeforeNew ==
    [][/\ \A k \in Kinds :
              /\ (clock_id'[k].status = "unscheduled" /\ clock_id[k].status # "unscheduled") =>
                     /\ clock_id[k].status = "scheduled"
                     /\ calls' = Append(calls, <<"unschedule", k>>)
              /\ (clock_id'[k] = None /\ clock_id[k] # None) =>
                     /\ clock_id[k].status = "unscheduled"
                     /\ calls' = Append(calls, <<"unref", k>>)
              /\ (calls' # calls /\ calls' # <<>> /\ calls'[Len(calls')] = <<"unref", k>>) =>
                     clock_id[k].status = "unscheduled" /\ clock_id'[k] = None
       /\ start_report_watch => report_clock_id = None
       /\ start_progress_watch => progress_clock_id = None]_vars

C15_Witness ==
    /\ cmd = "set_uri" /\ pc = "start_report"
    /\ calls = DropBoth \o <<<<"set_state", "Ready">>, <<"set_uri", arg>>>>
    /\ report_clock_id = None /\ progress_clock_id = None

\* C16: every gst_clock_id_wait a task calls is on an entry that has not been
\* released.
C16_NoWaitOnReleasedEntry ==
    [][\A t \in Tasks : task_wait(t) => StatusOf(t) # "released"]_vars

\* C17: a progress task that woke with GST_CLOCK_OK sends one SetProgress:
\* Some((position, duration)) exactly when the position query and the
\* duration query both succeeded, None when either failed; whatever the
\* queries gave, the task then goes back to its wait.
C17_ProgressPayload ==
    [][\A t \in Tasks : progress_send(t) =>
           /\ Len(chan') = Len(chan) + 1
           /\ SubSeq(chan', 1, Len(chan)) = chan
           /\ LET ev == chan'[Len(chan')]
                  made == origin'[Len(origin')]
              IN  /\ ev[1] = "SetProgress"
                  /\ (made[1] /\ made[2]) <=>
                         ev[2] \in {Some(<<p, d>>) : p \in Positions, d \in Durations}
                  /\ ~(made[1] /\ made[2]) <=> ev[2] = NoValue
           /\ LiveTasks("progress")' = LiveTasks("progress")
           /\ \E u \in Tasks' : u.at = t.at /\ u.kind = "progress" /\ u.pos = "spawned"]_vars

C17_Witness ==
    /\ chan # <<>>
    /\ chan[Len(chan)] = SetProgress(NoValue)
    /\ origin[Len(origin)] = Queried(TRUE, FALSE)
    /\ wtask["progress"] = "spawned"

\* C18: a play, pause or toggle call creates, cancels, releases and replaces
\* no clock entry, starts and ends no task, and leaves uri_set as it is: the
\* only engine call it may issue is a state request. A scheduled entry stops
\* being scheduled only in a step of stop or of set_uri.
C18_PlayPauseToggleLeaveWatchers ==
    [][/\ (call_play \/ call_pause \/ call_toggle) =>
              /\ UNCHANGED <<clock_id, wtask, stale, uri_set>>
              /\ \A i \in 1..Len(calls') : calls'[i][1] = "set_state"
       /\ (\E k \in Kinds : clock_id[k].status = "scheduled"
                               /\ clock_id'[k].status # "scheduled") =>
              cmd \in {"stop", "set_uri"} /\ cmd' = cmd /\ pc # "idle"]_vars

C18_Witness ==
    /\ Returned("pause")
    /\ calls = <<<<"set_state", "Paused">>>>
    /\ \A k \in Kinds : clock_id[k].status = "scheduled" /\ Running(wtask[k])
    /\ can_play

\* C20: between commands can_play() is true exactly when the report slot
\* holds an entry and exactly when the progress slot holds one.
C20_CanPlayIffSlotsOccupied ==
    Quiescent =>
        /\ can_play <=> report_clock_id # None
        /\ can_play <=> progress_clock_id # None

C20_Witness ==
    /\ Returned("toggle")
    /\ is_playing
    /\ can_play
    /\ report_clock_id # None
    /\ progress_clock_id # None

\* C19: with tasks scheduled fairly, a task whose entry was cancelled ends:
\* once both slots are empty for good, so that no entry is cancelled any
\* more, the tasks left over from the cancelled entries all end.
SlotsEmpty == report_clock_id = None /\ progress_clock_id = None
====
